---------------------------- MODULE Spec2Model ----------------------------
(***************************************************************************)
(* Evacuation planner: the BFS path finder (bfsEvacuate,                   *)
(* findAlternativePaths), the canonical edge key and the hazard manager    *)
(* (applyHazard, removeHazard, toggleHazard, resetAll, applyPreset) with   *)
(* the route recomputation every hazard operation ends with.               *)
(*                                                                         *)
(* Node ids are strings.  A route is a sequence of node ids; JavaScript's  *)
(* null is the empty sequence NULL (a route always holds its start node,   *)
(* so no route is empty).  The timer and the DOM are not modelled.         *)
(***************************************************************************)
EXTENDS Integers, Sequences, FiniteSets, TLC

VARIABLES
  data,             \* the loaded dataset: ADJACENCY, EXITS, START_NODE, HAZARD_PRESETS
  hazardNodes,      \* state.hazardNodes
  hazardEdges,      \* state.hazardEdges
  hazardTypes,      \* state.hazardTypes
  selectedHazard,   \* state.selectedHazard
  currentPath,      \* state.currentPath
  evacuationFailed, \* state.evacuationFailed
  panelAlts,        \* the alternative routes renderRoutePanel lists
  altCall,          \* the last findAlternativePaths call made on the current hazards
  lastMessage,      \* the last message written by logAudit / showToast
  initialPath,      \* the route init() computed (history)
  undo              \* what the last step added blocks to, if it only added (history)

vars == <<data, hazardNodes, hazardEdges, hazardTypes, selectedHazard, currentPath,
          evacuationFailed, panelAlts, altCall, lastMessage, initialPath, undo>>

NULL == <<>>

-----------------------------------------------------------------------------
(* Bounds of the model *)

\* Largest number of nodes the user operations may hold blocked at once
\* (a preset may block more).
MaxHazards == 2

\* Largest count handed to findAlternativePaths.
MaxCount == 3

-----------------------------------------------------------------------------
(* The shipped building dataset *)

ADJACENCY ==
  [
     Parking |-> <<"Electrical", "Generator", "StairB", "EmergencyExit">>,
     Electrical |-> <<"Parking">>,
     Generator |-> <<"Parking">>,
     StairB |-> <<"Parking", "StairG">>,
     EmergencyExit |-> <<"Parking">>,
     Entrance |-> <<"Reception">>,
     Reception |-> <<"Entrance", "Hall">>,
     Hall |-> <<"Reception", "Control", "KitchenG", "WashG", "StairG", "ExitA", "ExitB">>,
     Control |-> <<"Hall">>,
     KitchenG |-> <<"Hall">>,
     WashG |-> <<"Hall">>,
     StairG |-> <<"Hall", "Stair1", "StairB">>,
     ExitA |-> <<"Hall">>,
     ExitB |-> <<"Hall">>,
     Lobby1 |-> <<"R101", "R102", "Office", "Wash1", "Storage", "Stair1">>,
     R101 |-> <<"Lobby1">>,
     R102 |-> <<"Lobby1">>,
     Office |-> <<"Lobby1">>,
     Wash1 |-> <<"Lobby1">>,
     Storage |-> <<"Lobby1">>,
     Stair1 |-> <<"Lobby1", "StairG", "Stair2">>,
     Lobby2 |-> <<"R201", "R202", "Kitchen2", "Wash2", "Server", "Stair2">>,
     R201 |-> <<"Lobby2">>,
     R202 |-> <<"Lobby2">>,
     Kitchen2 |-> <<"Lobby2">>,
     Wash2 |-> <<"Lobby2">>,
     Server |-> <<"Lobby2">>,
     Stair2 |-> <<"Lobby2", "Stair1", "Stair3">>,
     Lobby3 |-> <<"R301", "R302", "R303", "Wash3", "Balcony3", "Stair3">>,
     R301 |-> <<"Lobby3">>,
     R302 |-> <<"Lobby3">>,
     R303 |-> <<"Lobby3">>,
     Wash3 |-> <<"Lobby3">>,
     Balcony3 |-> <<"Lobby3">>,
     Stair3 |-> <<"Lobby3", "Stair2">>
  ]

EXITS == {"ExitA", "ExitB", "EmergencyExit"}

START_NODE == "Control"

HAZARD_PRESETS ==
  [
     GroundFloorFire |-> [nodes |-> <<"Hall", "KitchenG">>, edges |-> <<>>],
     ExitABlocked    |-> [nodes |-> <<"ExitA">>, edges |-> <<>>],
     FullLockdown    |-> [nodes |-> <<"ExitA", "ExitB", "EmergencyExit">>, edges |-> <<>>],
     StairwellFire   |-> [nodes |-> <<"StairG", "Stair1">>, edges |-> <<>>],
     SmokeOnF2       |-> [nodes |-> <<"Lobby2", "Server", "Kitchen2">>, edges |-> <<>>]
  ]

\* The dataset the page loads.
Building ==
  [adjacency |-> ADJACENCY, exits |-> EXITS, start |-> START_NODE,
   presets |-> HAZARD_PRESETS]

\* The hazard kinds the selector offers: two of 'fire', 'smoke', 'closed',
\* 'exit_blocked'.
HazardKinds == {"fire", "smoke"}

-----------------------------------------------------------------------------
(* Strings: the UTF-16 code units of every node id the model uses, by which *)
(* Array.prototype.sort orders them.                                        *)

CodeUnits ==
  [
     Parking |-> <<80, 97, 114, 107, 105, 110, 103>>,
     Electrical |-> <<69, 108, 101, 99, 116, 114, 105, 99, 97, 108>>,
     Generator |-> <<71, 101, 110, 101, 114, 97, 116, 111, 114>>,
     StairB |-> <<83, 116, 97, 105, 114, 66>>,
     EmergencyExit |-> <<69, 109, 101, 114, 103, 101, 110, 99, 121, 69, 120, 105, 116>>,
     Entrance |-> <<69, 110, 116, 114, 97, 110, 99, 101>>,
     Reception |-> <<82, 101, 99, 101, 112, 116, 105, 111, 110>>,
     Hall |-> <<72, 97, 108, 108>>,
     Control |-> <<67, 111, 110, 116, 114, 111, 108>>,
     KitchenG |-> <<75, 105, 116, 99, 104, 101, 110, 71>>,
     WashG |-> <<87, 97, 115, 104, 71>>,
     StairG |-> <<83, 116, 97, 105, 114, 71>>,
     ExitA |-> <<69, 120, 105, 116, 65>>,
     ExitB |-> <<69, 120, 105, 116, 66>>,
     Lobby1 |-> <<76, 111, 98, 98, 121, 49>>,
     R101 |-> <<82, 49, 48, 49>>,
     R102 |-> <<82, 49, 48, 50>>,
     Office |-> <<79, 102, 102, 105, 99, 101>>,
     Wash1 |-> <<87, 97, 115, 104, 49>>,
     Storage |-> <<83, 116, 111, 114, 97, 103, 101>>,
     Stair1 |-> <<83, 116, 97, 105, 114, 49>>,
     Lobby2 |-> <<76, 111, 98, 98, 121, 50>>,
     R201 |-> <<82, 50, 48, 49>>,
     R202 |-> <<82, 50, 48, 50>>,
     Kitchen2 |-> <<75, 105, 116, 99, 104, 101, 110, 50>>,
     Wash2 |-> <<87, 97, 115, 104, 50>>,
     Server |-> <<83, 101, 114, 118, 101, 114>>,
     Stair2 |-> <<83, 116, 97, 105, 114, 50>>,
     Lobby3 |-> <<76, 111, 98, 98, 121, 51>>,
     R301 |-> <<82, 51, 48, 49>>,
     R302 |-> <<82, 51, 48, 50>>,
     R303 |-> <<82, 51, 48, 51>>,
     Wash3 |-> <<87, 97, 115, 104, 51>>,
     Balcony3 |-> <<66, 97, 108, 99, 111, 110, 121, 51>>,
     Stair3 |-> <<83, 116, 97, 105, 114, 51>>,
     S |-> <<83>>,
     A |-> <<65>>,
     B |-> <<66>>,
     C |-> <<67>>,
     D |-> <<68>>,
     E |-> <<69>>,
     Annex |-> <<65, 110, 110, 101, 120>>
  ]

\* a < b as the default comparator of sort compares two strings: code unit by
\* code unit, a proper prefix first.
RECURSIVE UnitsLess(_, _, _)
UnitsLess(u, v, i) ==
  IF i > Len(v) THEN FALSE
  ELSE IF i > Len(u) THEN TRUE
  ELSE IF u[i] < v[i] THEN TRUE
  ELSE IF u[i] > v[i] THEN FALSE
  ELSE UnitsLess(u, v, i + 1)

StrLess(a, b) == UnitsLess(CodeUnits[a], CodeUnits[b], 1)

\* Mutant of SortPair: the pair is left in the order given.
SortPairUnsorted(a, b) == <<a, b>>

\* [a, b].sort(): the pair is swapped only when b sorts before a.
SortPair(a, b) == IF StrLess(b, a) THEN <<b, a>> ELSE <<a, b>>

\* Array.prototype.join over a sequence of strings.
RECURSIVE Join(_, _)
Join(seq, sep) ==
  IF Len(seq) = 0 THEN ""
  ELSE IF Len(seq) = 1 THEN seq[1]
  ELSE seq[1] \o sep \o Join(Tail(seq), sep)

\* [a, b].sort().join('::'), computed once for every pair of ids.
EdgeKeyTable ==
  [a \in DOMAIN CodeUnits |-> [b \in DOMAIN CodeUnits |-> Join(SortPair(a, b), "::")]]

edgeKey(a, b) == EdgeKeyTable[a][b]

-----------------------------------------------------------------------------
(* BFS path finder *)

\* Mutant of SkipNeighbor: the blocked-edge test is left out.
SkipNeighborNoEdgeTest(current, neighbor, visited, blockedNodes, blockedEdges) ==
  \/ neighbor \in visited
  \/ neighbor \in blockedNodes

\* The three `continue` tests of the neighbour loop.
SkipNeighbor(current, neighbor, visited, blockedNodes, blockedEdges) ==
  \/ neighbor \in visited
  \/ neighbor \in blockedNodes
  \/ edgeKey(current, neighbor) \in blockedEdges

\* Mutant of NeighborsOf: the neighbour list is walked from its end.
NeighborsOfFromEnd(adjacency, current) ==
  IF current \in DOMAIN adjacency
  THEN [i \in 1..Len(adjacency[current]) |->
          adjacency[current][Len(adjacency[current]) + 1 - i]]
  ELSE <<>>

\* adjacency[current] || []
NeighborsOf(adjacency, current) ==
  IF current \in DOMAIN adjacency THEN adjacency[current] ELSE <<>>

\* The for-of loop over the neighbours of `current`, from index k on: the
\* visited set and the queue it leaves.
RECURSIVE ExpandNeighbors(_, _, _, _, _, _, _)
ExpandNeighbors(path, neighbors, k, visited, queue, blockedNodes, blockedEdges) ==
  IF k > Len(neighbors) THEN [visited |-> visited, queue |-> queue]
  ELSE
    LET neighbor == neighbors[k]
        current  == path[Len(path)]
    IN  IF SkipNeighbor(current, neighbor, visited, blockedNodes, blockedEdges)
        THEN ExpandNeighbors(path, neighbors, k + 1, visited, queue,
                             blockedNodes, blockedEdges)
        ELSE ExpandNeighbors(path, neighbors, k + 1, visited \cup {neighbor},
                             Append(queue, Append(path, neighbor)),
                             blockedNodes, blockedEdges)

\* Mutant of BfsLoop: queue.pop() for queue.shift(), the newest path first.
RECURSIVE BfsLoopNewestFirst(_, _, _, _, _, _)
BfsLoopNewestFirst(adjacency, exits, blockedNodes, blockedEdges, queue, visited) ==
  IF Len(queue) = 0 THEN NULL
  ELSE
    LET path    == queue[Len(queue)]
        current == path[Len(path)]
    IN  IF current \in exits THEN path
        ELSE
          LET r == ExpandNeighbors(path, NeighborsOf(adjacency, current), 1,
                                   visited, SubSeq(queue, 1, Len(queue) - 1),
                                   blockedNodes, blockedEdges)
          IN  BfsLoopNewestFirst(adjacency, exits, blockedNodes, blockedEdges,
                                 r.queue, r.visited)

\* The while loop: pop the oldest path, return it at an exit, else expand it.
RECURSIVE BfsLoop(_, _, _, _, _, _)
BfsLoop(adjacency, exits, blockedNodes, blockedEdges, queue, visited) ==
  IF Len(queue) = 0 THEN NULL
  ELSE
    LET path    == Head(queue)
        current == path[Len(path)]
    IN  IF current \in exits THEN path
        ELSE
          LET r == ExpandNeighbors(path, NeighborsOf(adjacency, current), 1,
                                   visited, Tail(queue), blockedNodes, blockedEdges)
          IN  BfsLoop(adjacency, exits, blockedNodes, blockedEdges,
                      r.queue, r.visited)

\* Mutant of bfsEvacuate: the test of a blocked start node is left out.
bfsEvacuateNoStartTest(graph, adjacency, exits, start, blockedNodes, blockedEdges) ==
  BfsLoop(adjacency, exits, blockedNodes, blockedEdges, <<<<start>>>>, {start})

bfsEvacuate(graph, adjacency, exits, start, blockedNodes, blockedEdges) ==
  IF start \in blockedNodes THEN NULL
  ELSE BfsLoop(adjacency, exits, blockedNodes, blockedEdges, <<<<start>>>>, {start})

\* Mutant of FirstNewAlt: a trial blocks the node alone, without the hazards.
RECURSIVE FirstNewAltForgetsHazards(_, _, _, _, _, _, _, _)
FirstNewAltForgetsHazards(adjacency, exits, start, blockedNodes, blockedEdges, prevPath, j, usedPaths) ==
  IF ~(j < Len(prevPath) - 1) THEN NULL
  ELSE
    LET extraBlocked == {prevPath[j + 1]}
        alt == bfsEvacuate(NULL, adjacency, exits, start, extraBlocked, blockedEdges)
    IN  IF alt # NULL /\ Join(alt, "->") \notin usedPaths
        THEN alt
        ELSE FirstNewAltForgetsHazards(adjacency, exits, start, blockedNodes,
                                       blockedEdges, prevPath, j + 1, usedPaths)

\* Mutant of FirstNewAlt: the trials run on to the last node of prevPath.
RECURSIVE FirstNewAltThroughLast(_, _, _, _, _, _, _, _)
FirstNewAltThroughLast(adjacency, exits, start, blockedNodes, blockedEdges, prevPath, j, usedPaths) ==
  IF ~(j < Len(prevPath)) THEN NULL
  ELSE
    LET extraBlocked == blockedNodes \cup {prevPath[j + 1]}
        alt == bfsEvacuate(NULL, adjacency, exits, start, extraBlocked, blockedEdges)
    IN  IF alt # NULL /\ Join(alt, "->") \notin usedPaths
        THEN alt
        ELSE FirstNewAltThroughLast(adjacency, exits, start, blockedNodes,
                                    blockedEdges, prevPath, j + 1, usedPaths)

\* The inner loop of findAlternativePaths: the first interior node of
\* prevPath, from 0-based index j on, whose extra block yields a route that is
\* not in usedPaths; NULL when none does.
RECURSIVE FirstNewAlt(_, _, _, _, _, _, _, _)
FirstNewAlt(adjacency, exits, start, blockedNodes, blockedEdges, prevPath, j, usedPaths) ==
  IF ~(j < Len(prevPath) - 1) THEN NULL
  ELSE
    LET extraBlocked == blockedNodes \cup {prevPath[j + 1]}
        alt == bfsEvacuate(NULL, adjacency, exits, start, extraBlocked, blockedEdges)
    IN  IF alt # NULL /\ Join(alt, "->") \notin usedPaths
        THEN alt
        ELSE FirstNewAlt(adjacency, exits, start, blockedNodes, blockedEdges,
                         prevPath, j + 1, usedPaths)

\* Mutant of AltLoop: every slot perturbs the first route, paths[0].
RECURSIVE AltLoopFromFirst(_, _, _, _, _, _, _, _, _)
AltLoopFromFirst(adjacency, exits, start, blockedNodes, blockedEdges, count, i, paths, usedPaths) ==
  IF ~(i < count) THEN paths
  ELSE
    LET prevPath == paths[1]
        alt == FirstNewAlt(adjacency, exits, start, blockedNodes, blockedEdges,
                           prevPath, 1, usedPaths)
    IN  IF alt = NULL THEN paths
        ELSE AltLoopFromFirst(adjacency, exits, start, blockedNodes, blockedEdges, count,
                              i + 1, Append(paths, alt), usedPaths \cup {Join(alt, "->")})

\* The outer loop of findAlternativePaths: slot i while i < count.
RECURSIVE AltLoop(_, _, _, _, _, _, _, _, _)
AltLoop(adjacency, exits, start, blockedNodes, blockedEdges, count, i, paths, usedPaths) ==
  IF ~(i < count) THEN paths
  ELSE
    LET prevPath == paths[i]   \* paths[i - 1], 0-based
        alt == FirstNewAlt(adjacency, exits, start, blockedNodes, blockedEdges,
                           prevPath, 1, usedPaths)
    IN  IF alt = NULL THEN paths
        ELSE AltLoop(adjacency, exits, start, blockedNodes, blockedEdges, count,
                     i + 1, Append(paths, alt), usedPaths \cup {Join(alt, "->")})

findAlternativePaths(adjacency, exits, start, blockedNodes, blockedEdges, count) ==
  LET optimal == bfsEvacuate(NULL, adjacency, exits, start, blockedNodes, blockedEdges)
  IN  IF optimal = NULL THEN <<>>
      ELSE AltLoop(adjacency, exits, start, blockedNodes, blockedEdges, count, 1,
                   <<optimal>>, {Join(optimal, "->")})

-----------------------------------------------------------------------------
(* Hazard management and route calculation *)

\* renderRoutePanel: the alternative routes the panel lists (alts.slice(1)
\* when findAlternativePaths(..., 3) returns more than one route).
renderRoutePanel(path, failed, blockedNodes, blockedEdges) ==
  IF failed THEN <<>>
  ELSE IF path = NULL THEN <<>>
  ELSE
    LET alts == findAlternativePaths(data.adjacency, data.exits, data.start,
                                     blockedNodes, blockedEdges, 3)
    IN  IF Len(alts) > 1 THEN SubSeq(alts, 2, Len(alts)) ELSE <<>>

\* _recalculate on the hazard sets an operation leaves.
recalculate(blockedNodes, blockedEdges) ==
  LET path == bfsEvacuate(NULL, data.adjacency, data.exits, data.start,
                          blockedNodes, blockedEdges)
  IN  /\ currentPath' = path
      /\ evacuationFailed' = (path = NULL)
      /\ panelAlts' = renderRoutePanel(path, path = NULL, blockedNodes, blockedEdges)

\* obj[key] = value
SetKey(obj, key, value) ==
  [k \in DOMAIN obj \cup {key} |-> IF k = key THEN value ELSE obj[k]]

\* delete obj[key]
DeleteKey(obj, key) == [k \in DOMAIN obj \ {key} |-> obj[k]]

NoCall == [called |-> FALSE, count |-> 0, paths |-> <<>>]

\* History: the hazard sets and the route a step started from, kept when the
\* step only added blocks to them.
NoUndo == [set |-> FALSE, nodes |-> {}, edges |-> {}, path |-> NULL]

Before == [set |-> TRUE, nodes |-> hazardNodes, edges |-> hazardEdges, path |-> currentPath]

\* Mutant of applyHazard: the route is not recalculated.
applyHazardNoRecalculate(nodeId, type) ==
  /\ hazardNodes' = hazardNodes \cup {nodeId}
  /\ hazardTypes' = SetKey(hazardTypes, nodeId, type)
  /\ lastMessage' = "Hazard applied"
  /\ altCall' = NoCall
  /\ undo' = NoUndo
  /\ UNCHANGED <<data, hazardEdges, selectedHazard, initialPath, currentPath,
                 evacuationFailed, panelAlts>>

applyHazard(nodeId, type) ==
  /\ hazardNodes' = hazardNodes \cup {nodeId}
  /\ hazardTypes' = SetKey(hazardTypes, nodeId, type)
  /\ lastMessage' = "Hazard applied"
  /\ recalculate(hazardNodes', hazardEdges)
  /\ altCall' = NoCall
  /\ undo' = IF nodeId \in hazardNodes THEN NoUndo ELSE Before
  /\ UNCHANGED <<data, hazardEdges, selectedHazard, initialPath>>

\* Mutant of removeHazard: the route is not recalculated.
removeHazardNoRecalculate(nodeId) ==
  /\ hazardNodes' = hazardNodes \ {nodeId}
  /\ hazardTypes' = DeleteKey(hazardTypes, nodeId)
  /\ lastMessage' = "Hazard cleared"
  /\ altCall' = NoCall
  /\ undo' = NoUndo
  /\ UNCHANGED <<data, hazardEdges, selectedHazard, initialPath, currentPath,
                 evacuationFailed, panelAlts>>

\* Mutant of removeHazard: the kind recorded for the node is not deleted.
removeHazardKeepsKind(nodeId) ==
  /\ hazardNodes' = hazardNodes \ {nodeId}
  /\ hazardTypes' = hazardTypes
  /\ lastMessage' = "Hazard cleared"
  /\ recalculate(hazardNodes', hazardEdges)
  /\ altCall' = NoCall
  /\ undo' = NoUndo
  /\ UNCHANGED <<data, hazardEdges, selectedHazard, initialPath>>

removeHazard(nodeId) ==
  /\ hazardNodes' = hazardNodes \ {nodeId}
  /\ hazardTypes' = DeleteKey(hazardTypes, nodeId)
  /\ lastMessage' = "Hazard cleared"
  /\ recalculate(hazardNodes', hazardEdges)
  /\ altCall' = NoCall
  /\ undo' = NoUndo
  /\ UNCHANGED <<data, hazardEdges, selectedHazard, initialPath>>

\* Mutant of toggleHazard: the start node is not turned away.
toggleHazardNoGuard(nodeId) ==
  IF nodeId \in hazardNodes
  THEN removeHazard(nodeId)
  ELSE applyHazard(nodeId, selectedHazard)

toggleHazard(nodeId) ==
  IF nodeId = data.start
  THEN /\ lastMessage' = "Cannot mark Control Room as hazard"
       /\ undo' = NoUndo
       /\ UNCHANGED <<data, hazardNodes, hazardEdges, hazardTypes, selectedHazard,
                      currentPath, evacuationFailed, panelAlts, altCall, initialPath>>
  ELSE IF nodeId \in hazardNodes
       THEN removeHazard(nodeId)
       ELSE applyHazard(nodeId, selectedHazard)

\* Mutant of resetAll: the route is not recalculated.
resetAllNoRecalculate ==
  /\ hazardNodes' = {}
  /\ hazardEdges' = {}
  /\ hazardTypes' = <<>>
  /\ lastMessage' = "Scenario reset successfully"
  /\ altCall' = NoCall
  /\ undo' = NoUndo
  /\ UNCHANGED <<data, selectedHazard, initialPath, currentPath, evacuationFailed,
                 panelAlts>>

resetAll ==
  /\ hazardNodes' = {}
  /\ hazardEdges' = {}
  /\ hazardTypes' = <<>>
  /\ lastMessage' = "Scenario reset successfully"
  /\ recalculate(hazardNodes', hazardEdges')
  /\ altCall' = NoCall
  /\ undo' = NoUndo
  /\ UNCHANGED <<data, selectedHazard, initialPath>>

\* preset.nodes.forEach: the entries of the preset's node list from index k on,
\* added to the hazard nodes and recorded as 'fire'.
RECURSIVE PresetNodes(_, _, _)
PresetNodes(nodes, k, acc) ==
  IF k > Len(nodes) THEN acc
  ELSE PresetNodes(nodes, k + 1,
                   [nodes |-> acc.nodes \cup {nodes[k]},
                    types |-> SetKey(acc.types, nodes[k], "fire")])

\* preset.edges.forEach: the keys of the preset's edge pairs from index k on.
RECURSIVE PresetEdges(_, _, _)
PresetEdges(edges, k, acc) ==
  IF k > Len(edges) THEN acc
  ELSE PresetEdges(edges, k + 1, acc \cup {edgeKey(edges[k][1], edges[k][2])})

\* Mutant of applyPreset: resetAll() is not called first.
applyPresetNoReset(presetName) ==
  IF presetName \notin DOMAIN data.presets
  THEN UNCHANGED vars
  ELSE
    LET preset == data.presets[presetName]
        filled == PresetNodes(preset.nodes, 1, [nodes |-> hazardNodes, types |-> hazardTypes])
    IN  /\ hazardNodes' = filled.nodes
        /\ hazardTypes' = filled.types
        /\ hazardEdges' = PresetEdges(preset.edges, 1, hazardEdges)
        /\ lastMessage' = "Preset loaded"
        /\ recalculate(hazardNodes', hazardEdges')
        /\ altCall' = NoCall
        /\ undo' = NoUndo
        /\ UNCHANGED <<data, selectedHazard, initialPath>>

\* applyPreset: nothing for an unknown name; else resetAll(), whose cleared
\* sets the preset's nodes and edges are then added to.
applyPreset(presetName) ==
  IF presetName \notin DOMAIN data.presets
  THEN UNCHANGED vars
  ELSE
    LET preset == data.presets[presetName]
        filled == PresetNodes(preset.nodes, 1, [nodes |-> {}, types |-> <<>>])
    IN  /\ hazardNodes' = filled.nodes
        /\ hazardTypes' = filled.types
        /\ hazardEdges' = PresetEdges(preset.edges, 1, {})
        /\ lastMessage' = "Preset loaded"
        /\ recalculate(hazardNodes', hazardEdges')
        /\ altCall' = NoCall
        /\ undo' = IF /\ hazardNodes \subseteq hazardNodes'
                      /\ hazardEdges \subseteq hazardEdges'
                      /\ <<hazardNodes, hazardEdges>> # <<hazardNodes', hazardEdges'>>
                   THEN Before ELSE NoUndo
        /\ UNCHANGED <<data, selectedHazard, initialPath>>

\* The change handler of the hazard type selector.
selectHazard(value) ==
  /\ selectedHazard' = value
  /\ undo' = NoUndo
  /\ UNCHANGED <<data, hazardNodes, hazardEdges, hazardTypes, currentPath,
                 evacuationFailed, panelAlts, altCall, lastMessage, initialPath>>

\* A call of findAlternativePaths on the current hazards with the given count.
callFindAlternativePaths(count) ==
  /\ altCall' = [called |-> TRUE, count |-> count,
                 paths |-> findAlternativePaths(data.adjacency, data.exits, data.start,
                                                hazardNodes, hazardEdges, count)]
  /\ undo' = NoUndo
  /\ UNCHANGED <<data, hazardNodes, hazardEdges, hazardTypes, selectedHazard,
                 currentPath, evacuationFailed, panelAlts, lastMessage, initialPath>>

\* init(): the state once the page has loaded dataset d.
InitWith(d) ==
  /\ data = d
  /\ hazardNodes = {}
  /\ hazardEdges = {}
  /\ hazardTypes = <<>>
  /\ selectedHazard = "fire"
  /\ currentPath = bfsEvacuate(NULL, d.adjacency, d.exits, d.start, {}, {})
  /\ evacuationFailed = (currentPath = NULL)
  /\ panelAlts =
       LET alts == findAlternativePaths(d.adjacency, d.exits, d.start, {}, {}, 3)
       IN  IF Len(alts) > 1 THEN SubSeq(alts, 2, Len(alts)) ELSE <<>>
  /\ altCall = NoCall
  /\ lastMessage = "System initialized"
  /\ initialPath = currentPath
  /\ undo = NoUndo

-----------------------------------------------------------------------------
(* Synthetic datasets, start S.  The small ones: every undirected graph on   *)
(* S, A, B, E.  The detour ones: the graphs on S, A, B, C, E over six pairs  *)
(* that hold a short way S - A - E beside a long one S - B - C - E.  Each    *)
(* with its neighbour lists in ascending or in descending order.             *)

SynOrder == <<"S", "A", "B", "E">>

DetourOrder == <<"S", "A", "B", "C", "E">>

DetourPairs ==
  {{"S", "A"}, {"S", "B"}, {"A", "B"}, {"A", "E"}, {"B", "C"}, {"C", "E"}}

Range(seq) == {seq[i] : i \in DOMAIN seq}

Pairs(nodes) == {p \in SUBSET nodes : Cardinality(p) = 2}

Reverse(seq) == [i \in 1..Len(seq) |-> seq[Len(seq) + 1 - i]]

SynAdjacency(order, edges, descending) ==
  LET listed == IF descending THEN Reverse(order) ELSE order
  IN  [n \in Range(order) |-> SelectSeq(listed, LAMBDA m : {n, m} \in edges)]

SynExits == {{"E"}, {"B"}, {"S", "E"}}

SynPresets ==
  [
     BlockAB  |-> [nodes |-> <<>>, edges |-> << <<"A", "B">> >>],
     BlockBA  |-> [nodes |-> <<>>, edges |-> << <<"B", "A">> >>],
     BlockES  |-> [nodes |-> <<>>, edges |-> << <<"E", "S">> >>],
     BlockABE |-> [nodes |-> <<"A">>, edges |-> << <<"E", "B">> >>]
  ]

SynDataset(order, edges, descending, exits) ==
  [adjacency |-> SynAdjacency(order, edges, descending), exits |-> exits,
   start |-> "S", presets |-> SynPresets]

SmallDatasets ==
  {SynDataset(SynOrder, g, d, x) :
     g \in SUBSET Pairs(Range(SynOrder)), d \in BOOLEAN, x \in SynExits}

DetourDatasets ==
  {SynDataset(DetourOrder, g, d, {"E"}) : g \in SUBSET DetourPairs, d \in BOOLEAN}

\* The datasets bfsEvacuate is run on.
SynDatasets == {d \in SmallDatasets : "S" \notin d.exits} \cup DetourDatasets

\* The six-node ones: S - A - B - E with any of five more pairs over S, A, B,
\* C, D, E, where a third route and a route off the second one can exist.
SixOrder == <<"S", "A", "B", "C", "D", "E">>

SixCore == {{"S", "A"}, {"A", "B"}, {"B", "E"}}

SixPairs == {{"S", "C"}, {"A", "D"}, {"C", "B"}, {"C", "D"}, {"D", "E"}}

SixDatasets ==
  {SynDataset(SixOrder, SixCore \cup g, FALSE, {"E"}) : g \in SUBSET SixPairs}

\* The datasets findAlternativePaths is called on.
AltDatasets == {d \in SmallDatasets : "E" \in d.exits} \cup SixDatasets

\* The chain S - A - B with B the only exit, and the diamond S - {A, B} - E.
Chain == SynDataset(SynOrder, {{"S", "A"}, {"A", "B"}}, FALSE, {"B"})

Diamond(descending) ==
  SynDataset(SynOrder, {{"S", "A"}, {"S", "B"}, {"A", "E"}, {"B", "E"}},
             descending, {"E"})

-----------------------------------------------------------------------------
(* The operations as steps.  NodeInputs are the ids an operation is handed. *)

\* Nodes of the building on or beside the routes from Control, a room beside
\* none, and one id of no node.
ClickIds ==
  {"Control", "Hall", "ExitA", "ExitB", "StairG", "StairB", "Parking",
   "EmergencyExit", "Reception", "Annex"}

NodeInputs == IF data = Building THEN ClickIds ELSE DOMAIN data.adjacency

PresetInputs == DOMAIN data.presets \cup {"NoSuchPreset"}

\* The model's cap on what an operation may leave blocked.
Within(nodeId) == Cardinality(hazardNodes \cup {nodeId}) <= MaxHazards

ToggleHazard == \E n \in NodeInputs : Within(n) /\ toggleHazard(n)

\* On the building any kind is handed over, on a synthetic dataset the one selected.
KindInputs == IF data = Building THEN HazardKinds ELSE {selectedHazard}

ApplyHazard == \E n \in NodeInputs, k \in KindInputs : Within(n) /\ applyHazard(n, k)

RemoveHazard == \E n \in NodeInputs : removeHazard(n)

ResetAll == resetAll

ApplyPreset == \E p \in PresetInputs : applyPreset(p)

SelectHazard == \E k \in HazardKinds : selectHazard(k)

CallFindAlternativePaths == \E c \in 0..MaxCount : callFindAlternativePaths(c)

\* Spec: the page on the shipped building, driven through its handlers.
Init == InitWith(Building)

Next == ToggleHazard \/ ResetAll \/ ApplyPreset \/ SelectHazard

Spec == Init /\ [][Next]_vars

\* SpecApi: the page on the shipped building, every hazard function callable.
NextApi ==
  ToggleHazard \/ ApplyHazard \/ RemoveHazard \/ ResetAll \/ ApplyPreset \/ SelectHazard

SpecApi == Init /\ [][NextApi]_vars

\* SpecSyn: the hazard functions and bfsEvacuate on the synthetic datasets.
InitSyn == \E d \in SynDatasets : InitWith(d)

NextSyn == ApplyHazard \/ RemoveHazard \/ ResetAll \/ ApplyPreset

SpecSyn == InitSyn /\ [][NextSyn]_vars

\* SpecAlt: the same with calls of findAlternativePaths, on the datasets with exit E.
InitAlt == \E d \in AltDatasets : InitWith(d)

NextAlt == NextSyn \/ CallFindAlternativePaths

SpecAlt == InitAlt /\ [][NextAlt]_vars

\* SpecPreset: every hazard function on the building, with its presets of
\* nodes, and on the chain and the diamonds, with their presets of edge pairs.
PresetDatasets == {Building, Chain, Diamond(FALSE), Diamond(TRUE)}

InitPreset == \E d \in PresetDatasets : InitWith(d)

SpecPreset == InitPreset /\ [][NextApi]_vars

-----------------------------------------------------------------------------
(* Routes, stated without the search *)

\* Every node id of the loaded dataset.
Nodes ==
  DOMAIN data.adjacency \cup {data.start} \cup data.exits
    \cup UNION {Range(data.adjacency[n]) : n \in DOMAIN data.adjacency}

Listed(u, v) == u \in DOMAIN data.adjacency /\ v \in Range(data.adjacency[u])

\* r runs from the start node to an exit, repeats no node, every step goes to
\* a listed neighbour, and no node and no step's edge key is blocked.
IsValidRoute(r, blockedNodes, blockedEdges) ==
  /\ Len(r) >= 1
  /\ r[1] = data.start
  /\ r[Len(r)] \in data.exits
  /\ \A i, j \in DOMAIN r : i # j => r[i] # r[j]
  /\ \A i \in DOMAIN r : r[i] \notin blockedNodes
  /\ \A i \in 1..(Len(r) - 1) :
       /\ Listed(r[i], r[i + 1])
       /\ edgeKey(r[i], r[i + 1]) \notin blockedEdges

\* One more traversable step onto a node the path does not hold yet.
Extensions(p, blockedNodes, blockedEdges) ==
  {Append(p, v) : v \in {w \in Nodes \ Range(p) :
                           /\ Listed(p[Len(p)], w)
                           /\ w \notin blockedNodes
                           /\ edgeKey(p[Len(p)], w) \notin blockedEdges}}

\* Every traversable path without repeats that extends one of `paths`.
RECURSIVE Reach(_, _, _)
Reach(paths, blockedNodes, blockedEdges) ==
  IF paths = {} THEN {}
  ELSE paths \cup Reach(UNION {Extensions(p, blockedNodes, blockedEdges) : p \in paths},
                        blockedNodes, blockedEdges)

\* Every valid route: found by exhaustive enumeration of the paths from the
\* start node.
ValidRoutes(blockedNodes, blockedEdges) ==
  {r \in Reach({<<data.start>>}, blockedNodes, blockedEdges) :
     IsValidRoute(r, blockedNodes, blockedEdges)}

-----------------------------------------------------------------------------
(* Claims *)

\* C1: a route bfsEvacuate returns starts at the start node, ends in the exit
\* set, repeats no node, steps only to listed neighbours, and holds no blocked
\* node and no blocked edge key.
C1_RouteIsValid ==
  currentPath # NULL => IsValidRoute(currentPath, hazardNodes, hazardEdges)

\* C1 witness: a route of two steps found with a node and an edge blocked.
C1_Witness ==
  /\ currentPath # NULL
  /\ Len(currentPath) >= 3
  /\ hazardNodes # {}
  /\ hazardEdges # {}
  /\ IsValidRoute(currentPath, hazardNodes, hazardEdges)

\* C2: bfsEvacuate returns a route exactly when a valid route exists, and the
\* route it returns has the fewest edges of all valid routes.
C2_ShortestOrNotFound ==
  LET routes == ValidRoutes(hazardNodes, hazardEdges)
  IN  /\ (currentPath = NULL) <=> (routes = {})
      /\ currentPath # NULL => \A r \in routes : Len(currentPath) <= Len(r)

\* C2 witness: hazards are set, a longer valid route exists beside the one
\* returned.
C2_Witness ==
  /\ currentPath # NULL
  /\ hazardNodes \cup hazardEdges # {}
  /\ \E r \in ValidRoutes(hazardNodes, hazardEdges) : Len(r) > Len(currentPath)

\* C3: through toggleHazard, resetAll and applyPreset on the shipped presets
\* START_NODE is never in state.hazardNodes, and a toggle of START_NODE (the
\* step that writes the "Cannot mark" toast) leaves hazardNodes, hazardEdges
\* and hazardTypes as they were.
C3_StartNeverHazard ==
  /\ [](START_NODE \notin hazardNodes)
  /\ [][lastMessage' = "Cannot mark Control Room as hazard"
          => UNCHANGED <<hazardNodes, hazardEdges, hazardTypes>>]_vars

\* C3 witness: START_NODE was toggled while other nodes were blocked.
C3_Witness ==
  /\ lastMessage = "Cannot mark Control Room as hazard"
  /\ hazardNodes # {}
  /\ START_NODE \notin hazardNodes

\* C4, as claimed: applyHazard(START_NODE, kind) is a no-op that leaves the
\* start node unblocked.
C4_ApplyHazardRejectsStart ==
  [][(\E k \in HazardKinds : applyHazard(START_NODE, k))
       => /\ UNCHANGED <<hazardNodes, hazardEdges, hazardTypes>>
          /\ START_NODE \notin hazardNodes']_vars

\* C5: the keys of state.hazardTypes are exactly the nodes of
\* state.hazardNodes, whatever hazard functions have run.
C5_KindsMatchNodes == DOMAIN hazardTypes = hazardNodes

\* C5 witness: a hazard was removed and another is still recorded.
C5_Witness ==
  /\ lastMessage = "Hazard cleared"
  /\ hazardNodes # {}
  /\ DOMAIN hazardTypes = hazardNodes

\* C9: resetAll leaves hazardNodes, hazardEdges and hazardTypes empty and
\* state.currentPath equal, node for node, to the route init() computed.
C9_ResetRestoresInitialRoute ==
  lastMessage = "Scenario reset successfully"
    => /\ hazardNodes = {}
       /\ hazardEdges = {}
       /\ hazardTypes = <<>>
       /\ currentPath = initialPath

\* C9 witness: resetAll has run and the route is the initial one again.
C9_Witness ==
  /\ lastMessage = "Scenario reset successfully"
  /\ currentPath = initialPath
  /\ currentPath # NULL

\* C6, as claimed: findAlternativePaths returns at most count routes, for
\* every count >= 0, and none when bfsEvacuate finds no route.
C6_AtMostCountRoutes ==
  altCall.called
    => /\ Len(altCall.paths) <= altCall.count
       /\ currentPath = NULL => altCall.paths = <<>>

\* C7: with the start node blocked bfsEvacuate returns null, also when the
\* start node is an exit, and findAlternativePaths returns no route.
C7_BlockedStartNotFound ==
  data.start \in hazardNodes
    => /\ currentPath = NULL
       /\ altCall.called => altCall.paths = <<>>

\* C7 witness: the start node is an exit and is blocked, the graph has edges,
\* and findAlternativePaths was called for three routes.
C7_Witness ==
  /\ data.start \in hazardNodes
  /\ data.start \in data.exits
  /\ data.adjacency[data.start] # <<>>
  /\ altCall.called
  /\ altCall.count = 3
  /\ altCall.paths = <<>>
  /\ currentPath = NULL

\* The keys of the edges a route steps over.
EdgeKeysOf(r) == {edgeKey(r[i], r[i + 1]) : i \in 1..(Len(r) - 1)}

\* C8: on the chain S - A - B with exit B the route is [S, A, B] with nothing
\* blocked, NotFound with A blocked, NotFound once the edge A, B is blocked
\* through a preset pair in either order; on every dataset a blocked node or
\* edge that lies on every route valid without it gives NotFound; and a step
\* that takes the hazards back to what the last step added to gives the route
\* that was current before.
C8_BlockAndUnblock ==
  /\ [](data = Chain
          => /\ (hazardNodes = {} /\ hazardEdges = {}) => currentPath = <<"S", "A", "B">>
             /\ "A" \in hazardNodes => currentPath = NULL)
  /\ [][(data = Chain /\ (applyPreset("BlockAB") \/ applyPreset("BlockBA")))
          => currentPath' = NULL]_vars
  /\ [](\A x \in hazardNodes :
          (\A r \in ValidRoutes(hazardNodes \ {x}, hazardEdges) : x \in Range(r))
            => currentPath = NULL)
  /\ [](\A e \in hazardEdges :
          (\A r \in ValidRoutes(hazardNodes, hazardEdges \ {e}) : e \in EdgeKeysOf(r))
            => currentPath = NULL)
  /\ [][(undo.set /\ hazardNodes' = undo.nodes /\ hazardEdges' = undo.edges)
          => currentPath' = undo.path]_vars

\* C8 witness: on the chain the hazard on a node was removed and the route is
\* [S, A, B] again.
C8_Witness ==
  /\ data = Chain
  /\ lastMessage = "Hazard cleared"
  /\ hazardNodes = {}
  /\ hazardEdges = {}
  /\ currentPath = <<"S", "A", "B">>

\* The place of v in a neighbour list.
Pos(seq, v) == CHOOSE i \in DOMAIN seq : seq[i] = v

\* Of two routes of one length, r leaves their common prefix by a neighbour
\* listed before the one q leaves it by.
ListedBefore(r, q) ==
  LET i == CHOOSE k \in DOMAIN r : r[k] # q[k] /\ \A j \in 1..(k - 1) : r[j] = q[j]
  IN  Pos(data.adjacency[r[i - 1]], r[i]) < Pos(data.adjacency[r[i - 1]], q[i])

\* C10: of the valid routes of the least length bfsEvacuate returns the one
\* the order of the neighbour lists puts first; on the diamond that is the
\* route through the first of A, B in S's list, and findAlternativePaths with
\* count 2 returns that route and then the one through the other.
C10_TiesByListOrder ==
  /\ currentPath # NULL
       => \A r \in ValidRoutes(hazardNodes, hazardEdges) :
            (Len(r) = Len(currentPath) /\ r # currentPath) => ListedBefore(currentPath, r)
  /\ \A d \in BOOLEAN :
       (data = Diamond(d) /\ hazardNodes = {} /\ hazardEdges = {})
         => LET first == data.adjacency["S"][1]
                other == data.adjacency["S"][2]
            IN  /\ currentPath = <<"S", first, "E">>
                /\ (altCall.called /\ altCall.count = 2)
                     => altCall.paths = << <<"S", first, "E">>, <<"S", other, "E">> >>

\* C10 witness: on the diamond that lists B before A, findAlternativePaths
\* with count 2 has returned the route through B and then the one through A.
C10_Witness ==
  /\ data = Diamond(TRUE)
  /\ hazardNodes = {}
  /\ hazardEdges = {}
  /\ currentPath = <<"S", "B", "E">>
  /\ altCall.called
  /\ altCall.count = 2
  /\ altCall.paths = << <<"S", "B", "E">>, <<"S", "A", "E">> >>

\* C11: when exactly one valid route exists under the current hazards,
\* findAlternativePaths with count 3 returns that route and nothing else.
C11_SingleRouteAlone ==
  (altCall.called /\ altCall.count = 3)
    => LET routes == ValidRoutes(hazardNodes, hazardEdges)
       IN  Cardinality(routes) = 1 => altCall.paths = <<CHOOSE r \in routes : TRUE>>

\* C11 witness: with a node blocked one route through an interior node is
\* left, there are more routes without the hazard, and the call with count 3
\* returned the one route.
C11_Witness ==
  /\ altCall.called
  /\ altCall.count = 3
  /\ hazardNodes # {}
  /\ currentPath # NULL
  /\ Len(currentPath) >= 3
  /\ ValidRoutes(hazardNodes, hazardEdges) = {currentPath}
  /\ Cardinality(ValidRoutes({}, {})) > 1
  /\ altCall.paths = <<currentPath>>

\* C12: after applyPreset of a named preset, from whatever hazards were set,
\* hazardNodes is the preset's node list, hazardTypes records 'fire' for
\* each of those nodes and nothing else, and hazardEdges is the set of edge
\* keys of the preset's pairs; applyPreset of a name that is no preset leaves
\* hazardNodes, hazardTypes and hazardEdges as they were.
C12_PresetReplacesHazards ==
  [][\A p \in PresetInputs :
       applyPreset(p)
         => IF p \in DOMAIN data.presets
            THEN /\ hazardNodes' = Range(data.presets[p].nodes)
                 /\ DOMAIN hazardTypes' = Range(data.presets[p].nodes)
                 /\ \A n \in DOMAIN hazardTypes' : hazardTypes'[n] = "fire"
                 /\ hazardEdges' =
                      {edgeKey(e[1], e[2]) : e \in Range(data.presets[p].edges)}
            ELSE UNCHANGED <<hazardNodes, hazardTypes, hazardEdges>>]_vars

\* C12 witness: on the diamond a preset of node A and pair [E, B] was loaded
\* over hazards it does not hold; A is recorded as 'fire' and the one
\* blocked edge key is that of B and E.
C12_Witness ==
  /\ data = Diamond(FALSE)
  /\ lastMessage = "Preset loaded"
  /\ undo = NoUndo
  /\ hazardNodes = {"A"}
  /\ hazardTypes = [n \in {"A"} |-> "fire"]
  /\ hazardEdges = {"B::E"}

\* r steps from a to b or from b to a.
StepsOver(r, a, b) ==
  \E i \in 1..(Len(r) - 1) : {r[i], r[i + 1]} = {a, b} /\ r[i] # r[i + 1]

\* C13: edgeKey(A, B) = edgeKey(B, A) for every pair of node ids, and after
\* a preset with the pair [A, B] is loaded the route steps neither from A to
\* B nor from B to A.
C13_EdgeKeySymmetric ==
  /\ \A a, b \in DOMAIN CodeUnits : edgeKey(a, b) = edgeKey(b, a)
  /\ [][\A p \in DOMAIN data.presets :
          applyPreset(p)
            => \A e \in Range(data.presets[p].edges) :
                 currentPath' # NULL => ~StepsOver(currentPath', e[1], e[2])]_vars

\* C13 witness: the route with nothing blocked steps from B to A, the preset
\* pair was keyed as A, B, and the route found now goes another way.
C13_Witness ==
  /\ lastMessage = "Preset loaded"
  /\ hazardEdges = {"A::B"}
  /\ hazardNodes = {}
  /\ initialPath # NULL
  /\ \E i \in 1..(Len(initialPath) - 1) : initialPath[i] = "B" /\ initialPath[i + 1] = "A"
  /\ currentPath # NULL
  /\ ~StepsOver(currentPath, "A", "B")

\* C14: after init and after every hazard function state.currentPath is what
\* bfsEvacuate returns on the current hazardNodes and hazardEdges, and
\* state.evacuationFailed is true exactly when state.currentPath is null.
C14_RouteIsFresh ==
  /\ currentPath = bfsEvacuate(NULL, data.adjacency, data.exits, data.start,
                               hazardNodes, hazardEdges)
  /\ evacuationFailed <=> (currentPath = NULL)

\* C14 witness: a hazard was applied on top of another, the route is no
\* longer the initial one and is the one bfsEvacuate finds now.
C14_Witness ==
  /\ lastMessage = "Hazard applied"
  /\ Cardinality(hazardNodes) = 2
  /\ currentPath # NULL
  /\ currentPath # initialPath
  /\ ~evacuationFailed
  /\ currentPath = bfsEvacuate(NULL, data.adjacency, data.exits, data.start,
                               hazardNodes, hazardEdges)

\* The route a trial finds: bfsEvacuate with node v blocked beside the hazards.
Trial(v) ==
  bfsEvacuate(NULL, data.adjacency, data.exits, data.start, hazardNodes \cup {v},
              hazardEdges)

\* Blocking the node at place j of prev yields a route that is not in `used`.
YieldsNew(prev, j, used) == Trial(prev[j]) # NULL /\ Trial(prev[j]) \notin used

\* The places of the interior nodes of a route.
Interior(r) == 2..(Len(r) - 1)

\* C15: of the routes findAlternativePaths returns the first is the
\* bfsEvacuate result under the hazards; each later one is the bfsEvacuate
\* result with one more node blocked, the first interior node of the route
\* just before it whose trial yields a route different from all routes before;
\* the routes are pairwise distinct; and fewer than count routes are returned
\* only when no interior node of the last one yields a further route.
C15_AlternativesByPerturbation ==
  altCall.called
    => LET P == altCall.paths
           optimal == bfsEvacuate(NULL, data.adjacency, data.exits, data.start,
                                  hazardNodes, hazardEdges)
       IN  /\ (P = <<>>) <=> (optimal = NULL)
           /\ P # <<>> => P[1] = optimal
           /\ \A k \in 2..Len(P) :
                LET prev == P[k - 1]
                    used == {P[m] : m \in 1..(k - 1)}
                IN  \E j \in Interior(prev) :
                      /\ YieldsNew(prev, j, used)
                      /\ \A i \in 2..(j - 1) : ~YieldsNew(prev, i, used)
                      /\ P[k] = Trial(prev[j])
           /\ \A a, b \in DOMAIN P : a # b => P[a] # P[b]
           /\ (P # <<>> /\ Len(P) < altCall.count)
                => \A j \in Interior(P[Len(P)]) : ~YieldsNew(P[Len(P)], j, Range(P))
           /\ altCall.count >= 1 => Len(P) <= altCall.count

\* C15 witness: three routes were returned; the third comes
\* from blocking a node of the second, and the second has an interior node
\* the first does not hold.
C15_Witness ==
  /\ altCall.called
  /\ altCall.count = 3
  /\ Len(altCall.paths) = 3
  /\ \E j \in Interior(altCall.paths[2]) : altCall.paths[3] = Trial(altCall.paths[2][j])
  /\ Range(altCall.paths[2]) \ Range(altCall.paths[1]) # {}

\* The undirected edges the adjacency lists.
ListedEdges == {{u, v} : u \in Nodes, v \in Nodes} \ {{u} : u \in Nodes}

\* C16: on the shipped building, through toggleHazard, resetAll and
\* applyPreset, findAlternativePaths with count 3 returns at most one route
\* and the route panel lists no alternative; the graph is a tree, and every
\* interior node of the current route lies on every valid route.
C16_NoAlternativeOnBuilding ==
  /\ Len(findAlternativePaths(ADJACENCY, EXITS, START_NODE, hazardNodes, hazardEdges, 3)) <= 1
  /\ panelAlts = <<>>
  /\ Cardinality({e \in ListedEdges : \E u, v \in e : u # v /\ Listed(u, v)})
       = Cardinality(Nodes) - 1
  /\ {p[Len(p)] : p \in Reach({<<START_NODE>>}, {}, {})} = Nodes
  /\ currentPath # NULL
       => \A j \in Interior(currentPath) :
            \A r \in ValidRoutes(hazardNodes, hazardEdges) : currentPath[j] \in Range(r)

\* C16 witness: both ground floor exits are blocked, the route runs through
\* the stairs and the parking to the emergency exit, and no alternative is
\* listed.
C16_Witness ==
  /\ hazardNodes = {"ExitA", "ExitB"}
  /\ currentPath = <<"Control", "Hall", "StairG", "StairB", "Parking", "EmergencyExit">>
  /\ panelAlts = <<>>
  /\ findAlternativePaths(ADJACENCY, EXITS, START_NODE, hazardNodes, hazardEdges, 3)
       = <<currentPath>>

=============================================================================
